---- MODULE Spec2Model ----
(***************************************************************************)
(* Transaction super-category classification: the rule-based classifier    *)
(* (scripts/add_supercategory_quick.py), the remote classifier and its     *)
(* deduplicating batch run (scripts/add_supercategory.py).                 *)
(*                                                                         *)
(* A Python string is modelled as a sequence of one-character strings, so  *)
(* that lower(), strip(), len(), `in` and `+` are computed character by    *)
(* character.  A missing field (float NaN from read_csv, or None) is a     *)
(* one-element sequence holding a marker that is no character.             *)
(***************************************************************************)
EXTENDS Integers, Sequences, FiniteSets, TLC

VARIABLES
    pc,               \* position of the running script / call
    script,           \* "call", "remote" (add_supercategory) or "quick"
    description,      \* arguments of the last categorize_transaction call
    merchant_category,
    transaction_type,
    variant,          \* which categorize_transaction the last call ran
    response,         \* what the remote service did on the last call
    result,           \* value returned by the last call
    printed,          \* diagnostics printed by categorize_transaction so far
    input,            \* the CSV file as it was when the script started
    file,             \* financial_data_SaraSaad_final.csv: rows of text cells
    df,               \* the data frame: a sequence of rows
    unique_rows,      \* the frame kept by drop_duplicates
    unique_mapping,   \* dict unique_key -> category
    series,           \* the Series built by df.apply: index label -> label
    dist,             \* value_counts() of the Super_Category column
    summary,          \* the distribution printed at the end of main()
    idx,              \* position of the loop / of apply in its rows
    calls,            \* arguments of every categorize_transaction call made
    returned          \* the label every one of these calls returned

callVars ==
    << description, merchant_category, transaction_type, variant, response,
       result, printed >>

batchVars ==
    << input, file, df, unique_rows, unique_mapping, series, dist, summary, idx,
       calls, returned >>

vars == << pc, script, callVars, batchVars >>

-----------------------------------------------------------------------------
(* Python strings *)

NaN == << "<NaN>" >>
None == << "<None>" >>

UpperAlpha ==
    << "A","B","C","D","E","F","G","H","I","J","K","L","M",
       "N","O","P","Q","R","S","T","U","V","W","X","Y","Z" >>

LowerAlpha ==
    << "a","b","c","d","e","f","g","h","i","j","k","l","m",
       "n","o","p","q","r","s","t","u","v","w","x","y","z" >>

LowerChar(c) ==
    IF \E i \in DOMAIN UpperAlpha : UpperAlpha[i] = c
    THEN LowerAlpha[CHOOSE i \in DOMAIN UpperAlpha : UpperAlpha[i] = c]
    ELSE c

\* str.lower()
lower(s) == [i \in 1..Len(s) |-> LowerChar(s[i])]

\* str(x): 'nan' for a float NaN, 'None' for None, the string itself otherwise
str(x) ==
    IF x = NaN THEN << "n","a","n" >>
    ELSE IF x = None THEN << "N","o","n","e" >>
    ELSE x

Whitespace == { " ", "\n", "\t" }

\* str.strip(): leading and trailing whitespace removed
strip(s) ==
    LET keep == { i \in 1..Len(s) : s[i] \notin Whitespace }
    IN  IF keep = {} THEN << >>
        ELSE SubSeq(s, CHOOSE i \in keep : \A j \in keep : i <= j,
                       CHOOSE i \in keep : \A j \in keep : j <= i)

\* `k in s` for two strings: substring containment
In(k, s) ==
    \E i \in 0..(Len(s) - Len(k)) : \A j \in 1..Len(k) : s[i + j] = k[j]

\* `x in xs` for a list
InList(x, xs) == \E i \in DOMAIN xs : xs[i] = x

\* any(k in s for k in ks)
AnyIn(ks, s) == \E i \in DOMAIN ks : In(ks[i], s)

-----------------------------------------------------------------------------
(* The five labels *)

Essential_Living ==
    << "E","s","s","e","n","t","i","a","l","_","L","i","v","i","n","g" >>
Lifestyle_Spending ==
    << "L","i","f","e","s","t","y","l","e","_","S","p","e","n","d","i","n","g" >>
Financial_Management ==
    << "F","i","n","a","n","c","i","a","l","_","M","a","n","a","g","e","m","e","n","t" >>
Income_Receipts ==
    << "I","n","c","o","m","e","_","R","e","c","e","i","p","t","s" >>
Other == << "O","t","h","e","r" >>

\* valid_categories of the remote classifier
valid_categories ==
    << Essential_Living, Lifestyle_Spending, Financial_Management,
       Income_Receipts, Other >>

-----------------------------------------------------------------------------
(* Keyword taxonomy of the rule-based classifier *)

\* income_keywords: add_supercategory_quick.py lines 21-22
income_keywords ==
    << <<"p","a","y","m","e","n","t"," ","f","r","o","m">>,
       <<"t","r","a","n","s","f","e","r"," ","f","r","o","m">>,
       <<"r","e","f","u","n","d">>,
       <<"r","e","w","a","r","d">>,
       <<"i","n","t","e","r","e","s","t"," ","e","a","r","n","e","d">>,
       <<"i","n","c","o","m","e">>,
       <<"d","e","p","o","s","i","t">>,
       <<"s","a","l","a","r","y">> >>

\* financial_keywords: add_supercategory_quick.py lines 31-33
financial_keywords ==
    << <<"t","r","a","n","s","f","e","r"," ","t","o">>,
       <<"t","r","a","n","s","f","e","r"," ","f","r","o","m">>,
       <<"t","o"," ","p","e","r","s","o","n","_","n","a","m","e">>,
       <<"f","e","e">>,
       <<"d","e","l","i","v","e","r","y">>,
       <<"a","c","c","o","u","n","t","_","r","e","f">>,
       <<"c","l","o","s","i","n","g">>,
       <<"p","o","c","k","e","t"," ","w","i","t","h","d","r","a","w","a","l">> >>

\* essential_keywords: add_supercategory_quick.py lines 41-45
essential_keywords ==
    << <<"c","a","r","r","e","f","o","u","r">>,
       <<"a","l","d","i">>,
       <<"l","i","d","l">>,
       <<"c","o","l","r","u","y","t">>,
       <<"f","o","o","d">>,
       <<"g","r","o","c","e","r","i","e","s">>,
       <<"s","u","p","e","r","m","a","r","k","e","t">>,
       <<"h","e","a","l","t","h","c","a","r","e">>,
       <<"p","h","a","r","m","a","c","y">>,
       <<"u","t","i","l","i","t","i","e","s">>,
       <<"b","i","l","l">>,
       <<"o","r","a","n","g","e">>,
       <<"e","l","e","c","t","r","i","c">>,
       <<"w","a","t","e","r">>,
       <<"t","r","a","n","s","p","o","r","t","a","t","i","o","n">>,
       <<"s","n","c","b">>,
       <<"d","e"," ","l","i","j","n">>,
       <<"m","e","t","r","o">>,
       <<"b","u","s">>,
       <<"e","d","u","c","a","t","i","o","n">>,
       <<"u","n","i","v","e","r","s","i","t","y">>,
       <<"s","c","h","o","o","l">>,
       <<"w","a","s","h"," ","c","a","m","p","u","s">> >>

\* grocery_stores: add_supercategory_quick.py lines 60-63
grocery_stores ==
    << <<"c","a","r","r","e","f","o","u","r">>,
       <<"a","l","d","i">>,
       <<"l","i","d","l">>,
       <<"c","o","l","r","u","y","t">>,
       <<"o","k","a","y">>,
       <<"c","o","n","d","i","s">>,
       <<"p","r","i","m","a","p","r","i","x">>,
       <<"n","o","r","m","a">>,
       <<"e","u","r","o","s","h","o","p">>,
       <<"a","c","t","i","o","n">>,
       <<"m","c","d","o","n","a","l","d">>,
       <<"d","e","l","h","a","i","z","e">>,
       <<"c","o","n","t","i","n","e","n","t","e">>,
       <<"i","n","t","e","r","m","a","r","c","h","e">>,
       <<"h","e","m","a">>,
       <<"s","u","p","e","r","m","e","r","c","a","d","o">>,
       <<"w","e","n","z","h","o","u">>,
       <<"a","m","i","g","o">>,
       <<"t","r","a","d","y","s">>,
       <<"a","s","i","a","t","i","c">>,
       <<"a","s","i","a","n">> >>

\* lifestyle_keywords: add_supercategory_quick.py lines 68-74
lifestyle_keywords ==
    << <<"r","e","s","t","a","u","r","a","n","t">>,
       <<"c","a","f","e">>,
       <<"b","a","r">>,
       <<"c","i","n","e","m","a">>,
       <<"e","n","t","e","r","t","a","i","n","m","e","n","t">>,
       <<"s","h","o","p","p","i","n","g">>,
       <<"r","e","t","a","i","l">>,
       <<"a","m","a","z","o","n">>,
       <<"n","e","t","f","l","i","x">>,
       <<"s","t","r","e","a","m","i","n","g">>,
       <<"p","e","r","s","o","n","a","l"," ","c","a","r","e">>,
       <<"b","e","a","u","t","y">>,
       <<"h","o","b","b","y">>,
       <<"t","r","a","v","e","l">>,
       <<"f","l","i","g","h","t">>,
       <<"h","o","t","e","l">>,
       <<"v","a","c","a","t","i","o","n">>,
       <<"u","b","e","r">>,
       <<"t","a","x","i">>,
       <<"b","o","l","t">>,
       <<"p","i","c","o">>,
       <<"d","o","n","e","r">>,
       <<"p","i","z","z","a">>,
       <<"a","i","r","b","n","b">>,
       <<"b","o","o","k","i","n","g">>,
       <<"h","a","i","r","d","r","e","s","s","e","r">>,
       <<"n","a","i","l">>,
       <<"m","a","n","i","c","u","r","e">>,
       <<"m","a","s","s","a","g","e">>,
       <<"s","p","a">>,
       <<"g","y","m">>,
       <<"y","o","g","a">>,
       <<"c","o","f","f","e","e">>,
       <<"c","h","o","c","o","l","a","t","e">>,
       <<"m","u","s","e","u","m">>,
       <<"t","h","e","a","t","e","r">>,
       <<"c","i","r","c","u","s">> >>

\* restaurants with one more name, 'nan' (for naan)
restaurants_with_nan ==
    << <<"n","a","n">>,
       <<"p","i","c","o">>,
       <<"d","o","n","e","r">>,
       <<"r","e","s","t","a","u","r","a","n","t">>,
       <<"a","t","e","l","i","e","r">>,
       <<"t","h","e","o">>,
       <<"c","h","e","z">>,
       <<"c","a","f","e">>,
       <<"b","a","r">>,
       <<"b","a","k","e","r","y">>,
       <<"p","a","s","t","r","y">>,
       <<"c","r","o","i","s","s","a","n","t","e","r","i","e">>,
       <<"s","a","n","d","w","i","c","h">>,
       <<"f","r","i","t","u","u","r">>,
       <<"f","r","i","t","e","r","i","e">>,
       <<"k","e","b","a","b">>,
       <<"p","i","z","z","a">>,
       <<"b","u","r","g","e","r">>,
       <<"h","o","t"," ","d","o","g">>,
       <<"t","a","c","o","s">>,
       <<"s","u","s","h","i">>,
       <<"c","h","i","n","e","s","e">>,
       <<"i","n","d","i","a","n">>,
       <<"v","i","e","t","n","a","m","e","s","e">>,
       <<"t","h","a","i">>,
       <<"t","a","p","a","s">>,
       <<"r","a","m","e","n">>,
       <<"c","u","r","r","y">>,
       <<"p","a","s","t","a">>,
       <<"r","i","s","t","o","r","a","n","t","e">>,
       <<"t","r","a","t","t","o","r","i","a">> >>

\* restaurants: add_supercategory_quick.py lines 86-90
restaurants ==
    << <<"p","i","c","o">>,
       <<"d","o","n","e","r">>,
       <<"r","e","s","t","a","u","r","a","n","t">>,
       <<"a","t","e","l","i","e","r">>,
       <<"t","h","e","o">>,
       <<"c","h","e","z">>,
       <<"c","a","f","e">>,
       <<"b","a","r">>,
       <<"b","a","k","e","r","y">>,
       <<"p","a","s","t","r","y">>,
       <<"c","r","o","i","s","s","a","n","t","e","r","i","e">>,
       <<"s","a","n","d","w","i","c","h">>,
       <<"f","r","i","t","u","u","r">>,
       <<"f","r","i","t","e","r","i","e">>,
       <<"k","e","b","a","b">>,
       <<"p","i","z","z","a">>,
       <<"b","u","r","g","e","r">>,
       <<"h","o","t"," ","d","o","g">>,
       <<"t","a","c","o","s">>,
       <<"s","u","s","h","i">>,
       <<"c","h","i","n","e","s","e">>,
       <<"i","n","d","i","a","n">>,
       <<"v","i","e","t","n","a","m","e","s","e">>,
       <<"t","h","a","i">>,
       <<"t","a","p","a","s">>,
       <<"r","a","m","e","n">>,
       <<"c","u","r","r","y">>,
       <<"p","a","s","t","a">>,
       <<"r","i","s","t","o","r","a","n","t","e">>,
       <<"t","r","a","t","t","o","r","i","a">> >>

\* ['topup', 'reward', 'interest']
income_types ==
    << <<"t","o","p","u","p">>,
       <<"r","e","w","a","r","d">>,
       <<"i","n","t","e","r","e","s","t">> >>

\* ['transfer', 'fee']
transfer_types ==
    << <<"t","r","a","n","s","f","e","r">>,
       <<"f","e","e">> >>

to_person_name == <<"t","o"," ","p","e","r","s","o","n","_","n","a","m","e">>
from_person_name == <<"f","r","o","m"," ","p","e","r","s","o","n","_","n","a","m","e">>
financial_services ==
    <<"f","i","n","a","n","c","i","a","l"," ","s","e","r","v","i","c","e","s">>
utilities_and_bills ==
    <<"u","t","i","l","i","t","i","e","s"," ","&"," ","b","i","l","l","s">>
transportation == <<"t","r","a","n","s","p","o","r","t","a","t","i","o","n">>
education == <<"e","d","u","c","a","t","i","o","n">>
entertainment == <<"e","n","t","e","r","t","a","i","n","m","e","n","t">>
shopping_and_retail ==
    <<"s","h","o","p","p","i","n","g"," ","&"," ","r","e","t","a","i","l">>
personal_care == <<"p","e","r","s","o","n","a","l"," ","c","a","r","e">>
card_payment == <<"c","a","r","d"," ","p","a","y","m","e","n","t">>
service == <<"s","e","r","v","i","c","e">>
servicios == <<"s","e","r","v","i","c","i","o","s">>

\* ['food', 'eat', 'dine', 'meal', 'snack']
food_tokens ==
    << <<"f","o","o","d">>, <<"e","a","t">>, <<"d","i","n","e">>,
       <<"m","e","a","l">>, <<"s","n","a","c","k">> >>

\* ['market', 'store', 'shop', 'superm']
market_tokens ==
    << <<"m","a","r","k","e","t">>, <<"s","t","o","r","e">>,
       <<"s","h","o","p">>, <<"s","u","p","e","r","m">> >>

\* len(desc_lower) < 10: "very short descriptions"
ShortDescription == 10

-----------------------------------------------------------------------------
(* add_supercategory_quick.categorize_transaction: the if-cascade, in the  *)
(* order of the source.  Each numbered section of the source is one        *)
(* operator; each THEN is one `return`, and Fall stands for reaching the   *)
(* end of the section without a return.                                    *)

Fall == << "<fall>" >>

\* any(keyword in desc_lower or keyword in category_lower for keyword in ks)
AnyInEither(ks, desc_lower, category_lower) ==
    \E i \in DOMAIN ks : In(ks[i], desc_lower) \/ In(ks[i], category_lower)

\* the type token looked up as a substring of the type
income_section_type_substring(desc_lower, category_lower, type_lower) ==
    IF AnyIn(income_types, type_lower) THEN Income_Receipts
    ELSE IF AnyIn(income_keywords, desc_lower) THEN Income_Receipts
    ELSE Fall

\* 1. INCOME_RECEIPTS
income_section(desc_lower, category_lower, type_lower) ==
    IF InList(type_lower, income_types) THEN Income_Receipts
    ELSE IF AnyIn(income_keywords, desc_lower) THEN Income_Receipts
    ELSE Fall

\* 2. FINANCIAL_MANAGEMENT
financial_section(desc_lower, category_lower, type_lower) ==
    IF /\ InList(type_lower, transfer_types)
       /\ \/ In(to_person_name, desc_lower)
          \/ In(from_person_name, desc_lower)
    THEN Financial_Management
    ELSE IF AnyIn(financial_keywords, desc_lower) THEN Financial_Management
    ELSE IF In(financial_services, category_lower) THEN Financial_Management
    ELSE Fall

\* 3. ESSENTIAL_LIVING
essential_section(desc_lower, category_lower, type_lower) ==
    IF AnyInEither(essential_keywords, desc_lower, category_lower)
    THEN Essential_Living
    ELSE IF In(utilities_and_bills, category_lower) THEN Essential_Living
    ELSE IF In(transportation, category_lower) THEN Essential_Living
    ELSE IF In(education, category_lower) THEN Essential_Living
    ELSE IF AnyIn(grocery_stores, desc_lower) THEN Essential_Living
    ELSE Fall

\* only the restaurant names are looked up
lifestyle_section_restaurants_only(desc_lower, category_lower, type_lower) ==
    IF AnyIn(restaurants, desc_lower) THEN Lifestyle_Spending ELSE Fall

\* 4. LIFESTYLE_SPENDING
lifestyle_section(desc_lower, category_lower, type_lower) ==
    IF AnyInEither(lifestyle_keywords, desc_lower, category_lower)
    THEN Lifestyle_Spending
    ELSE IF \/ In(entertainment, category_lower)
            \/ In(shopping_and_retail, category_lower)
         THEN Lifestyle_Spending
    ELSE IF In(personal_care, category_lower) THEN Lifestyle_Spending
    ELSE IF AnyIn(restaurants, desc_lower) THEN Lifestyle_Spending
    ELSE Fall

\* the block without its return for very short descriptions
card_payment_block_without_short(desc_lower, category_lower, type_lower) ==
    IF type_lower # card_payment THEN Fall
    ELSE IF AnyIn(food_tokens, desc_lower) THEN Lifestyle_Spending
    ELSE IF AnyIn(market_tokens, desc_lower) THEN Essential_Living
    ELSE Fall

\* the block with another length for "very short"
card_payment_block_short_below_5(desc_lower, category_lower, type_lower) ==
    IF type_lower # card_payment THEN Fall
    ELSE IF AnyIn(food_tokens, desc_lower) THEN Lifestyle_Spending
    ELSE IF AnyIn(market_tokens, desc_lower) THEN Essential_Living
    ELSE IF Len(desc_lower) < 5 THEN Other
    ELSE Fall

\* the block under `if type_lower == 'card payment':`
card_payment_block(desc_lower, category_lower, type_lower) ==
    IF type_lower # card_payment THEN Fall
    ELSE IF AnyIn(food_tokens, desc_lower) THEN Lifestyle_Spending
    ELSE IF AnyIn(market_tokens, desc_lower) THEN Essential_Living
    ELSE IF Len(desc_lower) < ShortDescription THEN Other
    ELSE Fall

\* 5. OTHER: the additional checks and the default
other_section(desc_lower, category_lower, type_lower) ==
    LET card == card_payment_block(desc_lower, category_lower, type_lower)
    IN  IF card # Fall THEN card
        ELSE IF In(service, desc_lower) \/ In(servicios, desc_lower)
             THEN Financial_Management
        ELSE Other

\* the cascade with section 4 tried before section 1
quick_lifestyle_first(d, c, t) ==
    LET desc_lower == lower(str(d))
        category_lower == lower(str(c))
        type_lower == lower(str(t))
        income == income_section(desc_lower, category_lower, type_lower)
        financial == financial_section(desc_lower, category_lower, type_lower)
        essential == essential_section(desc_lower, category_lower, type_lower)
        lifestyle == lifestyle_section(desc_lower, category_lower, type_lower)
    IN  IF lifestyle # Fall THEN lifestyle
        ELSE IF income # Fall THEN income
        ELSE IF financial # Fall THEN financial
        ELSE IF essential # Fall THEN essential
        ELSE other_section(desc_lower, category_lower, type_lower)

\* the cascade with the financial section ahead of the income section
quick_financial_first(d, c, t) ==
    LET desc_lower == lower(str(d))
        category_lower == lower(str(c))
        type_lower == lower(str(t))
        income == income_section(desc_lower, category_lower, type_lower)
        financial == financial_section(desc_lower, category_lower, type_lower)
        essential == essential_section(desc_lower, category_lower, type_lower)
        lifestyle == lifestyle_section(desc_lower, category_lower, type_lower)
    IN  IF financial # Fall THEN financial
        ELSE IF income # Fall THEN income
        ELSE IF essential # Fall THEN essential
        ELSE IF lifestyle # Fall THEN lifestyle
        ELSE other_section(desc_lower, category_lower, type_lower)

\* the cascade with section 4 tried before section 3
quick_lifestyle_before_essential(d, c, t) ==
    LET desc_lower == lower(str(d))
        category_lower == lower(str(c))
        type_lower == lower(str(t))
        income == income_section(desc_lower, category_lower, type_lower)
        financial == financial_section(desc_lower, category_lower, type_lower)
        essential == essential_section(desc_lower, category_lower, type_lower)
        lifestyle == lifestyle_section(desc_lower, category_lower, type_lower)
    IN  IF income # Fall THEN income
        ELSE IF financial # Fall THEN financial
        ELSE IF lifestyle # Fall THEN lifestyle
        ELSE IF essential # Fall THEN essential
        ELSE other_section(desc_lower, category_lower, type_lower)

\* a classifier that looks at the label it returned last
quick_keeps_state(d, c, t) ==
    LET income == income_section(lower(str(d)), lower(str(c)), lower(str(t)))
    IN  IF income # Fall /\ result # Income_Receipts THEN income ELSE Other

quick_categorize_transaction(d, c, t) ==
    LET desc_lower == lower(str(d))
        category_lower == lower(str(c))
        type_lower == lower(str(t))
        income == income_section(desc_lower, category_lower, type_lower)
        financial == financial_section(desc_lower, category_lower, type_lower)
        essential == essential_section(desc_lower, category_lower, type_lower)
        lifestyle == lifestyle_section(desc_lower, category_lower, type_lower)
    IN  IF income # Fall THEN income
        ELSE IF financial # Fall THEN financial
        ELSE IF essential # Fall THEN essential
        ELSE IF lifestyle # Fall THEN lifestyle
        ELSE other_section(desc_lower, category_lower, type_lower)

-----------------------------------------------------------------------------
(* add_supercategory.categorize_transaction: the remote classifier.  What  *)
(* the service does is an outcome r: it answers with a text content, it    *)
(* answers with no text content (content is None), or the call raises.     *)

Answer(text) == [kind |-> "content", content |-> text, error |-> "-"]
NoContent == [kind |-> "null", content |-> << >>, error |-> "-"]
Raises(e) == [kind |-> "raise", content |-> << >>, error |-> e]
NoCall == [kind |-> "none", content |-> << >>, error |-> "-"]

\* print(f"Warning: Invalid category '{category}', defaulting to 'Other'")
Warning(category) == [tag |-> "Warning: Invalid category", arg |-> category]
\* print(f"Error categorizing transaction: {e}")
Error(r) ==
    [tag |-> "Error categorizing transaction",
     arg |-> IF r.kind = "null" THEN "AttributeError" ELSE r.error]

\* the classifier returning the response without validating it
remote_unvalidated(d, c, t, r) ==
    IF r.kind # "content"
    THEN [ret |-> Other, out |-> << Error(r) >>, raised |-> FALSE]
    ELSE [ret |-> strip(r.content), out |-> << >>, raised |-> FALSE]

\* the classifier validating the response without strip()
remote_unstripped(d, c, t, r) ==
    IF r.kind # "content"
    THEN [ret |-> Other, out |-> << Error(r) >>, raised |-> FALSE]
    ELSE LET category == r.content
         IN  IF InList(category, valid_categories)
             THEN [ret |-> category, out |-> << >>, raised |-> FALSE]
             ELSE [ret |-> Other, out |-> << Warning(category) >>,
                   raised |-> FALSE]

\* the classifier with a validation that prints nothing
remote_unwarned(d, c, t, r) ==
    IF r.kind # "content"
    THEN [ret |-> Other, out |-> << Error(r) >>, raised |-> FALSE]
    ELSE LET category == strip(r.content)
         IN  IF InList(category, valid_categories)
             THEN [ret |-> category, out |-> << >>, raised |-> FALSE]
             ELSE [ret |-> Other, out |-> << >>, raised |-> FALSE]

\* the classifier with an except clause that prints nothing
remote_silent_failure(d, c, t, r) ==
    IF r.kind # "content"
    THEN [ret |-> Other, out |-> << >>, raised |-> FALSE]
    ELSE LET category == strip(r.content)
         IN  IF InList(category, valid_categories)
             THEN [ret |-> category, out |-> << >>, raised |-> FALSE]
             ELSE [ret |-> Other, out |-> << Warning(category) >>,
                   raised |-> FALSE]

\* the classifier without its try/except
remote_uncaught(d, c, t, r) ==
    IF r.kind # "content"
    THEN [ret |-> << >>, out |-> << >>, raised |-> TRUE]
    ELSE LET category == strip(r.content)
         IN  IF InList(category, valid_categories)
             THEN [ret |-> category, out |-> << >>, raised |-> FALSE]
             ELSE [ret |-> Other, out |-> << Warning(category) >>,
                   raised |-> FALSE]

\* The value returned (ret), what the call printed (out), and whether an
\* exception left the function (raised): the `except Exception` clause
\* catches whatever the try block raises, the AttributeError of
\* None.strip() included.
remote_categorize_transaction(d, c, t, r) ==
    IF r.kind # "content"
    THEN [ret |-> Other, out |-> << Error(r) >>, raised |-> FALSE]
    ELSE LET category == strip(r.content)
         IN  IF InList(category, valid_categories)
             THEN [ret |-> category, out |-> << >>, raised |-> FALSE]
             ELSE [ret |-> Other, out |-> << Warning(category) >>,
                   raised |-> FALSE]

-----------------------------------------------------------------------------
(* Inputs *)

NotACategory == <<"N","o","t","A","C","a","t","e","g","o","r","y">>

MaxParts == 2

DescriptionParts ==
    { <<"S","A","L","A","R","Y"," ">>,
      <<"n","e","t","f","l","i","x"," ">>,
      <<"s","e","r","v","i","c","e">>,
      <<"t","o"," ","P","E","R","S","O","N","_","N","A","M","E"," ">>,
      <<"f","r","o","m"," ","p","e","r","s","o","n","_","n","a","m","e"," ">>,
      <<"k","e","b","a","b"," ">>,
      <<"o","k","a","y"," ">>,
      <<"m","e","a","l"," ">>,
      <<"s","h","o","p"," ">>,
      <<"U","N","K","N","O","W","N"," ","V","E","N","D","O","R"," ">> }

RECURSIVE Texts(_)
Texts(n) ==
    IF n = 0 THEN { << >> }
    ELSE LET shorter == Texts(n - 1)
         IN  shorter \cup { s \o p : s \in shorter, p \in DescriptionParts }

Descriptions == Texts(MaxParts) \cup { NaN, None }

MerchantCategories ==
    { << >>, NaN, None,
      <<"G","r","o","c","e","r","i","e","s">>,
      <<"E","n","t","e","r","t","a","i","n","m","e","n","t">>,
      <<"F","i","n","a","n","c","i","a","l"," ","S","e","r","v","i","c","e","s">> }

Types ==
    { << >>, NaN, None,
      <<"T","o","p","U","p">>,
      <<"t","r","a","n","s","f","e","r">>,
      <<"c","a","r","d"," ","p","a","y","m","e","n","t">>,
      <<"e","x","c","h","a","n","g","e">> }

Responses ==
    { Answer(valid_categories[i]) : i \in DOMAIN valid_categories }
    \cup
    { Answer(NotACategory),
      Answer(<<"o","t","h","e","r">>),
      Answer(<<"I","n","c","o","m","e","_","R","e","c","e","i","p","t","s",".">>),
      Answer(<<" ">> \o Essential_Living \o <<"\n">>),
      Answer(<< >>),
      NoContent,
      Raises("APITimeoutError") }

-----------------------------------------------------------------------------
(* One classification call *)

NoBatch ==
    /\ input = << >>
    /\ file = << >>
    /\ df = << >>
    /\ unique_rows = << >>
    /\ unique_mapping = << >>
    /\ series = << >>
    /\ dist = << >>
    /\ summary = << >>
    /\ idx = 0
    /\ calls = << >>
    /\ returned = << >>

NoCallYet ==
    /\ description = << >>
    /\ merchant_category = << >>
    /\ transaction_type = << >>
    /\ variant = "none"
    /\ response = NoCall
    /\ result = << >>
    /\ printed = << >>

InitCall ==
    /\ pc = "ready"
    /\ script = "call"
    /\ description \in Descriptions
    /\ merchant_category \in MerchantCategories
    /\ transaction_type \in Types
    /\ variant = "none"
    /\ response = NoCall
    /\ result = << >>
    /\ printed = << >>
    /\ NoBatch

CallQuick ==
    /\ pc = "ready"
    /\ script = "call"
    /\ pc' = "returned"
    /\ variant' = "quick"
    /\ result' = quick_categorize_transaction(description, merchant_category,
                                              transaction_type)
    /\ UNCHANGED << script, description, merchant_category, transaction_type,
                    response, printed, batchVars >>

CallRemote ==
    /\ pc = "ready"
    /\ script = "call"
    /\ \E r \in Responses :
        LET got == remote_categorize_transaction(description, merchant_category,
                                                 transaction_type, r)
        IN  /\ response' = r
            /\ result' = got.ret
            /\ printed' = printed \o got.out
            /\ pc' = IF got.raised THEN "raised" ELSE "returned"
    /\ variant' = "remote"
    /\ UNCHANGED << script, description, merchant_category, transaction_type,
                    batchVars >>

NextCall == CallQuick \/ CallRemote

SpecCall == InitCall /\ [][NextCall]_vars

-----------------------------------------------------------------------------
(* One call of the rule-based classifier on whole records: descriptions,   *)
(* merchant categories and types as they stand in the data, each in the    *)
(* letter case given, in upper case and in lower case.                     *)

UpperChar(c) ==
    IF \E i \in DOMAIN LowerAlpha : LowerAlpha[i] = c
    THEN UpperAlpha[CHOOSE i \in DOMAIN LowerAlpha : LowerAlpha[i] = c]
    ELSE c

\* str.upper()
upper(s) == [i \in 1..Len(s) |-> UpperChar(s[i])]

InEveryCase(texts) ==
    texts \cup { lower(s) : s \in texts } \cup { upper(s) : s \in texts }

Text_salary_payment ==
    <<"S","A","L","A","R","Y"," ","P","A","Y","M","E","N","T"," ",
      "F","R","O","M"," ","E","M","P","L","O","Y","E","R">>
Text_carrefour_market ==
    <<"C","A","R","R","E","F","O","U","R"," ","M","A","R","K","E","T">>
Text_netflix_subscription ==
    <<"N","E","T","F","L","I","X"," ","S","U","B","S","C","R","I","P","T","I","O","N">>
Text_unknown_vendor ==
    <<"U","N","K","N","O","W","N"," ","V","E","N","D","O","R"," ","X","Y">>
Text_transfer_to ==
    <<"T","r","a","n","s","f","e","r"," ","t","o"," ",
      "P","E","R","S","O","N","_","N","A","M","E">>
Text_Groceries == <<"G","r","o","c","e","r","i","e","s">>
Text_Entertainment == <<"E","n","t","e","r","t","a","i","n","m","e","n","t">>
Text_topup_fee == <<"t","o","p","u","p"," ","f","e","e">>
Text_okay_kebab == <<"O","k","a","y"," ","K","e","b","a","b">>

RecordDescriptions ==
    InEveryCase({ Text_salary_payment, Text_carrefour_market,
                  Text_netflix_subscription, Text_unknown_vendor,
                  Text_transfer_to, service,
                  Text_unknown_vendor \o <<" ">> \o service, Text_okay_kebab })

RecordCategories ==
    InEveryCase({ << >>, Text_Groceries, Text_Entertainment })

RecordTypes ==
    InEveryCase({ <<"T","o","p","U","p">>, <<"r","e","w","a","r","d">>,
                  <<"I","n","t","e","r","e","s","t">>, Text_topup_fee,
                  <<"C","a","r","d"," ","P","a","y","m","e","n","t">>,
                  <<"f","e","e">> })

InitRecord ==
    /\ pc = "ready"
    /\ script = "call"
    /\ description \in RecordDescriptions
    /\ merchant_category \in RecordCategories
    /\ transaction_type \in RecordTypes
    /\ variant = "none"
    /\ response = NoCall
    /\ result = << >>
    /\ printed = << >>
    /\ NoBatch

NextRecord == CallQuick

SpecRecord == InitRecord /\ [][NextRecord]_vars

-----------------------------------------------------------------------------
(* One call of the rule-based classifier on a card payment whose           *)
(* description is a keyword of the taxonomy and whose merchant category is *)
(* empty.                                                                  *)

\* the entries of a list
Entries(list) == { list[i] : i \in DOMAIN list }

Keywords ==
    Entries(income_keywords) \cup Entries(financial_keywords)
    \cup Entries(essential_keywords) \cup Entries(grocery_stores)
    \cup Entries(lifestyle_keywords) \cup Entries(restaurants)

InitKeyword ==
    /\ pc = "ready"
    /\ script = "call"
    /\ description \in Keywords
    /\ merchant_category = << >>
    /\ transaction_type = card_payment
    /\ variant = "none"
    /\ response = NoCall
    /\ result = << >>
    /\ printed = << >>
    /\ NoBatch

NextKeyword == CallQuick

SpecKeyword == InitKeyword /\ [][NextKeyword]_vars

-----------------------------------------------------------------------------
(* The two scripts' main(): a batch run over the CSV file *)

MaxRows == 3

Cell_salary == <<"s","a","l","a","r","y">>
Cell_General == <<"G","e","n","e","r","a","l">>
Cell_topup == <<"t","o","p","u","p">>
Cell_kebab == <<"k","e","b","a","b">>
Cell_bar == <<"b","a","r">>
Cell_food == <<"f","o","o","d">>
Cell_nan == <<"n","a","n">>
Cell_transfer == <<"t","r","a","n","s","f","e","r">>

FileRow(d, c, t, a) ==
    [Description_Anon |-> d, Merchant_Category |-> c, Type |-> t, Amount |-> a]

\* Lines of the CSV file: text cells.  Two rows that differ in Amount only,
\* two rows whose fields differ but concatenate to the same text, and one
\* with empty and 'nan' cells.
FileRows ==
    { FileRow(Cell_salary, Cell_General, Cell_topup, <<"1","0">>),
      FileRow(Cell_salary, Cell_General, Cell_topup, <<"2","5">>),
      FileRow(Cell_kebab \o <<"|">> \o Cell_bar, Cell_food, card_payment, <<"7">>),
      FileRow(Cell_kebab, Cell_bar \o <<"|">> \o Cell_food, card_payment, <<"7">>),
      FileRow(<< >>, Cell_nan, Cell_transfer, <<"3">>) }

RECURSIVE Files(_)
Files(n) ==
    IF n = 0 THEN { << >> }
    ELSE LET shorter == Files(n - 1)
         IN  shorter \cup { Append(f, r) : f \in shorter, r \in FileRows }

\* what the remote service may do on one call of a batch
BatchResponses ==
    { Answer(Lifestyle_Spending), Answer(Other), Answer(NotACategory),
      Raises("APITimeoutError") }

\* pandas' default na_values (some of them): cells read as NaN
NaValues ==
    { << >>, <<"n","a","n">>, <<"N","a","N">>, <<"N","A">>,
      <<"N","U","L","L">>, <<"n","u","l","l">>, <<"N","o","n","e">> }

\* pd.read_csv: every cell is text, except that an NA cell is NaN
read_csv(f) ==
    [i \in 1..Len(f) |->
        [col \in DOMAIN f[i] |->
            IF f[i][col] \in NaValues THEN NaN ELSE f[i][col]]]

\* df.to_csv(index=False): NaN is written as the empty cell
to_csv(frame) ==
    [i \in 1..Len(frame) |->
        [col \in DOMAIN frame[i] |->
            IF frame[i][col] = NaN THEN << >> ELSE frame[i][col]]]

\* Series.astype(str) of one value
astype_str(x) == str(x)

\* a key that also holds the Amount column
unique_key_with_amount(row) ==
    astype_str(row.Description_Anon) \o <<"|">> \o
    astype_str(row.Merchant_Category) \o <<"|">> \o
    astype_str(row.Type) \o <<"|">> \o astype_str(row.Amount)

\* the unique_key of a row: the three fields joined by '|'
unique_key(row) ==
    astype_str(row.Description_Anon) \o <<"|">> \o
    astype_str(row.Merchant_Category) \o <<"|">> \o
    astype_str(row.Type)

KeyColumns == { "Description_Anon", "Merchant_Category", "Type", "unique_key" }

\* df[[...]]: the columns cols of every row
Project(frame, cols) ==
    [i \in 1..Len(frame) |-> [col \in cols |-> frame[i][col]]]

\* the rows `keep` of a frame, in order, each with its index label
Take(frame, keep) ==
    [k \in 1..Cardinality(keep) |->
        LET i == CHOOSE i \in keep : Cardinality({ j \in keep : j < i }) = k - 1
        IN  [idx |-> i - 1, row |-> frame[i]]]

\* no deduplication: every row is kept
drop_duplicates_keeps_all(frame) == Take(frame, 1..Len(frame))

\* DataFrame.drop_duplicates(): the first occurrence of every distinct row
\* (NaN equals NaN here), index labels kept
drop_duplicates(frame) ==
    Take(frame, { i \in 1..Len(frame) : \A j \in 1..(i - 1) : frame[j] # frame[i] })

\* apply behind a deduplication of the rows
apply_rows_unique(frame) ==
    Take(frame, { i \in 1..Len(frame) : \A j \in 1..(i - 1) : frame[j] # frame[i] })

\* DataFrame.apply(f, axis=1): f is called on every row, in index order
apply_rows(frame) == Take(frame, 1..Len(frame))

\* Series.map(dict): the value of the key, NaN for a key the dict lacks
map(key, mapping) == IF key \in DOMAIN mapping THEN mapping[key] ELSE NaN

\* d[k] = v
SetItem(d, k, v) == [x \in DOMAIN d \cup { k } |-> IF x = k THEN v ELSE d[x]]

WithColumn(row, col, v) ==
    [x \in DOMAIN row \cup { col } |-> IF x = col THEN v ELSE row[x]]

\* a drop that leaves the column in place
Drop_keeps_column(row, col) == row

\* df.drop(col, axis=1) of one row
Drop(row, col) == [x \in DOMAIN row \ { col } |-> row[x]]

\* the count of every one of the five labels, 0 for one that does not occur
value_counts_of_all_labels(frame) ==
    [l \in { valid_categories[k] : k \in DOMAIN valid_categories } |->
        Cardinality({ i \in 1..Len(frame) : frame[i].Super_Category = l })]

\* Series.value_counts(): the count of every value that occurs
value_counts(frame) ==
    [l \in { frame[i].Super_Category : i \in 1..Len(frame) } |->
        Cardinality({ i \in 1..Len(frame) : frame[i].Super_Category = l })]

DigitChars == << "0","1","2","3","4","5","6","7","8","9" >>

\* str(n) of a natural number
RECURSIVE Decimal(_)
Decimal(n) ==
    IF n < 10 THEN << DigitChars[n + 1] >>
    ELSE Decimal(n \div 10) \o << DigitChars[(n % 10) + 1] >>

\* the quotient printed without rounding up
format_1f_truncating(num, den) ==
    LET tenths == (10 * num) \div den
    IN  Decimal(tenths \div 10) \o << "." >> \o Decimal(tenths % 10)

\* f"{num/den:.1f}": the quotient with one decimal, rounded to the nearest
\* tenth, an exact tie to the even one.  (The float quotient of two
\* integers agrees with this below 80 rows.)
format_1f(num, den) ==
    LET q == (10 * num) \div den
        r == (10 * num) % den
        tenths == IF 2 * r > den \/ (2 * r = den /\ q % 2 = 1) THEN q + 1 ELSE q
    IN  Decimal(tenths \div 10) \o << "." >> \o Decimal(tenths % 10)

Args(row) == << row.Description_Anon, row.Merchant_Category, row.Type >>

InitBatch ==
    /\ pc = "start"
    /\ script \in { "remote", "quick" }
    /\ input \in Files(MaxRows) \ { << >> }
    /\ file = input
    /\ df = << >>
    /\ unique_rows = << >>
    /\ unique_mapping = << >>
    /\ series = << >>
    /\ dist = << >>
    /\ summary = << >>
    /\ idx = 0
    /\ calls = << >>
    /\ returned = << >>
    /\ NoCallYet

\* df = pd.read_csv('financial_data_SaraSaad_final.csv')
ReadCsv ==
    /\ pc = "start"
    /\ df' = read_csv(file)
    /\ pc' = IF script = "remote" THEN "unique_key" ELSE "apply"
    /\ idx' = 1
    /\ UNCHANGED << script, callVars, input, file, unique_rows, unique_mapping,
                    series, dist, summary, calls, returned >>

\* add_supercategory.main, Step 1: df['unique_key'] = ...
MakeUniqueKey ==
    /\ pc = "unique_key"
    /\ df' = [i \in 1..Len(df) |-> WithColumn(df[i], "unique_key", unique_key(df[i]))]
    /\ pc' = "drop_duplicates"
    /\ UNCHANGED << script, callVars, input, file, unique_rows, unique_mapping,
                    series, dist, summary, idx, calls, returned >>

\* unique_mapping = {}; unique_rows = df[[...]].drop_duplicates()
DropDuplicates ==
    /\ pc = "drop_duplicates"
    /\ unique_mapping' = << >>
    /\ unique_rows' = drop_duplicates(Project(df, KeyColumns))
    /\ idx' = 1
    /\ pc' = "loop"
    /\ UNCHANGED << script, callVars, input, file, df, series, dist, summary,
                    calls, returned >>

\* Step 2: one iteration of `for idx, row in unique_rows.iterrows()`
LoopStep ==
    /\ pc = "loop"
    /\ idx <= Len(unique_rows)
    /\ \E r \in BatchResponses :
        LET row == unique_rows[idx].row
            got == remote_categorize_transaction(row.Description_Anon,
                       row.Merchant_Category, row.Type, r)
        IN  /\ description' = row.Description_Anon
            /\ merchant_category' = row.Merchant_Category
            /\ transaction_type' = row.Type
            /\ variant' = "remote"
            /\ response' = r
            /\ result' = got.ret
            /\ printed' = printed \o got.out
            /\ calls' = Append(calls, Args(row))
            /\ IF got.raised
               THEN pc' = "raised" /\ UNCHANGED << unique_mapping, idx, returned >>
               ELSE /\ unique_mapping' = SetItem(unique_mapping, row.unique_key, got.ret)
                    /\ returned' = Append(returned, got.ret)
                    /\ idx' = idx + 1
                    /\ pc' = "loop"
    /\ UNCHANGED << script, input, file, df, unique_rows, series, dist, summary >>

\* Step 3: df['Super_Category'] = df['unique_key'].map(unique_mapping);
\* df = df.drop('unique_key', axis=1)
MapLabels ==
    /\ pc = "loop"
    /\ idx > Len(unique_rows)
    /\ df' = [i \in 1..Len(df) |->
                Drop(WithColumn(df[i], "Super_Category",
                                map(df[i].unique_key, unique_mapping)),
                     "unique_key")]
    /\ pc' = "to_csv"
    /\ UNCHANGED << script, callVars, input, file, unique_rows, unique_mapping,
                    series, dist, summary, idx, calls, returned >>

\* add_supercategory_quick.main: one call of the lambda by df.apply
ApplyRow ==
    /\ pc = "apply"
    /\ idx <= Len(apply_rows(df))
    /\ LET at == apply_rows(df)[idx]
           label == quick_categorize_transaction(at.row.Description_Anon,
                        at.row.Merchant_Category, at.row.Type)
       IN  /\ description' = at.row.Description_Anon
           /\ merchant_category' = at.row.Merchant_Category
           /\ transaction_type' = at.row.Type
           /\ variant' = "quick"
           /\ result' = label
           /\ series' = SetItem(series, at.idx, label)
           /\ calls' = Append(calls, Args(at.row))
           /\ returned' = Append(returned, label)
    /\ idx' = idx + 1
    /\ UNCHANGED << pc, script, response, printed, input, file, df, unique_rows,
                    unique_mapping, dist, summary >>

\* df['Super_Category'] = <the Series apply returned>, aligned on the index
AssignColumn ==
    /\ pc = "apply"
    /\ idx > Len(apply_rows(df))
    /\ df' = [i \in 1..Len(df) |->
                WithColumn(df[i], "Super_Category", map(i - 1, series))]
    /\ pc' = "to_csv"
    /\ UNCHANGED << script, callVars, input, file, unique_rows, unique_mapping,
                    series, dist, summary, idx, calls, returned >>

\* df.to_csv(output_file, index=False)
ToCsv ==
    /\ pc = "to_csv"
    /\ file' = to_csv(df)
    /\ pc' = "report"
    /\ UNCHANGED << script, callVars, input, df, unique_rows, unique_mapping,
                    series, dist, summary, idx, calls, returned >>

\* the distribution each script prints: add_supercategory_quick prints,
\* for category, count in dist.items(), the count and count/len(df)*100
\* with one decimal; add_supercategory prints the value_counts() Series
Report ==
    /\ pc = "report"
    /\ dist' = value_counts(df)
    /\ summary' =
          LET counts == value_counts(df)
          IN  IF script = "quick"
              THEN [category \in DOMAIN counts |->
                      [count |-> counts[category],
                       percent |-> format_1f(counts[category] * 100, Len(df))]]
              ELSE [category \in DOMAIN counts |-> [count |-> counts[category]]]
    /\ pc' = "done"
    /\ UNCHANGED << script, callVars, input, file, df, unique_rows,
                    unique_mapping, series, idx, calls, returned >>

NextBatch ==
    \/ ReadCsv
    \/ MakeUniqueKey
    \/ DropDuplicates
    \/ LoopStep
    \/ MapLabels
    \/ ApplyRow
    \/ AssignColumn
    \/ ToCsv
    \/ Report

SpecBatch == InitBatch /\ [][NextBatch]_vars

\* add_supercategory.main alone, under the scheduling of a sequential
\* script: a statement that can run does run
InitRemote == InitBatch /\ script = "remote"

NextRemote ==
    \/ ReadCsv
    \/ MakeUniqueKey
    \/ DropDuplicates
    \/ LoopStep
    \/ MapLabels
    \/ ToCsv
    \/ Report

SpecRemoteFair == InitRemote /\ [][NextRemote]_vars /\ WF_vars(NextRemote)

(* The distribution report alone, on larger batches: main() of either     *)
(* script at the statement after df.to_csv, on a file holding up to       *)
(* MaxCopies lines of each of three kinds.                                 *)

MaxCopies == 7

Line_salary == FileRow(Cell_salary, Cell_General, Cell_topup, <<"1","0">>)
Line_kebab ==
    FileRow(Cell_kebab \o <<"|">> \o Cell_bar, Cell_food, card_payment, <<"7">>)
Line_blank == FileRow(<< >>, Cell_nan, Cell_transfer, <<"3">>)

RECURSIVE Copies(_, _)
Copies(line, n) == IF n = 0 THEN << >> ELSE Append(Copies(line, n - 1), line)

ReportFiles ==
    { Copies(Line_salary, a) \o Copies(Line_kebab, b) \o Copies(Line_blank, c) :
        a, b, c \in 0..MaxCopies } \ { << >> }

\* the frame with the Super_Category column the rules give
LabelledFrame(f) ==
    [i \in 1..Len(f) |->
        LET row == read_csv(f)[i]
        IN  WithColumn(row, "Super_Category",
                quick_categorize_transaction(row.Description_Anon,
                    row.Merchant_Category, row.Type))]

\* the frame with the unique_key column
KeyedFrame(f) ==
    [i \in 1..Len(f) |->
        WithColumn(read_csv(f)[i], "unique_key", unique_key(read_csv(f)[i]))]

\* the state either script is in when it has saved the file: for
\* add_supercategory, the service has answered every call with the label
\* the rules give
InitReport ==
    /\ pc = "report"
    /\ input \in ReportFiles
    /\ df = LabelledFrame(input)
    /\ file = to_csv(df)
    /\ dist = << >>
    /\ summary = << >>
    /\ \/ /\ script = "quick"
          /\ unique_rows = << >>
          /\ unique_mapping = << >>
          /\ series = [i \in 0..(Len(df) - 1) |-> df[i + 1].Super_Category]
          /\ idx = Len(df) + 1
          /\ calls = [i \in 1..Len(df) |-> Args(df[i])]
          /\ returned = [i \in 1..Len(df) |-> df[i].Super_Category]
          /\ variant = "quick"
          /\ response = NoCall
       \/ /\ script = "remote"
          /\ unique_rows = drop_duplicates(Project(KeyedFrame(input), KeyColumns))
          /\ unique_mapping =
                [k \in { unique_key(df[i]) : i \in 1..Len(df) } |->
                    LET i == CHOOSE i \in 1..Len(df) : unique_key(df[i]) = k
                    IN  df[i].Super_Category]
          /\ series = << >>
          /\ idx = Len(unique_rows) + 1
          /\ calls = [j \in 1..Len(unique_rows) |-> Args(unique_rows[j].row)]
          /\ returned =
                [j \in 1..Len(unique_rows) |->
                    unique_mapping[unique_rows[j].row.unique_key]]
          /\ variant = "remote"
          /\ response = Answer(returned[Len(returned)])
    /\ description = calls[Len(calls)][1]
    /\ merchant_category = calls[Len(calls)][2]
    /\ transaction_type = calls[Len(calls)][3]
    /\ result = returned[Len(returned)]
    /\ printed = << >>

NextReport == Report

SpecReport == InitReport /\ [][NextReport]_vars

-----------------------------------------------------------------------------
(* Claims about one classification call (SpecCall, SpecRecord) *)

\* the closed set of labels
Labels ==
    { Essential_Living, Lifestyle_Spending, Financial_Management,
      Income_Receipts, Other }

Returned == pc = "returned"
ReturnedQuick == pc = "returned" /\ variant = "quick"
ReturnedRemote == pc = "returned" /\ variant = "remote"

\* C1: totality -- whatever the three fields are and whatever the remote
\* service answers, a call of either categorize_transaction returns exactly
\* one of the five labels, never an empty value or another string.
C1_Totality == Returned => result \in Labels

C1_Witness ==
    /\ ReturnedRemote
    /\ response = Answer(NotACategory)
    /\ description = NaN
    /\ result = Other

\* the fields as the rule-based classifier reads them
DescLower == lower(str(description))
CategoryLower == lower(str(merchant_category))
TypeLower == lower(str(transaction_type))

\* The tiers of the priority list, as predicates on the record
Tier1 == InList(TypeLower, income_types)
Tier2 == AnyIn(income_keywords, DescLower)
Tier3 ==
    /\ InList(TypeLower, transfer_types)
    /\ In(to_person_name, DescLower) \/ In(from_person_name, DescLower)
Tier4 ==
    \/ AnyIn(financial_keywords, DescLower)
    \/ In(financial_services, CategoryLower)
Tier5 ==
    \/ AnyInEither(essential_keywords, DescLower, CategoryLower)
    \/ In(utilities_and_bills, CategoryLower)
    \/ In(transportation, CategoryLower)
    \/ In(education, CategoryLower)
Tier6 == AnyIn(grocery_stores, DescLower)
Tier7 ==
    \/ AnyInEither(lifestyle_keywords, DescLower, CategoryLower)
    \/ In(entertainment, CategoryLower)
    \/ In(shopping_and_retail, CategoryLower)
    \/ In(personal_care, CategoryLower)
Tier8 == AnyIn(restaurants, DescLower)
Tier9Food == TypeLower = card_payment /\ AnyIn(food_tokens, DescLower)
Tier9Market == TypeLower = card_payment /\ AnyIn(market_tokens, DescLower)
Tier9Short == TypeLower = card_payment /\ Len(DescLower) < ShortDescription
Tier10 == In(service, DescLower) \/ In(servicios, DescLower)

\* the label of the lowest-numbered matching tier; tier 9 is the two
\* card-payment heuristics (plus `short`, the rule the amended claim adds),
\* tier 11 the default
TierLabel(short) ==
    IF Tier1 \/ Tier2 THEN Income_Receipts
    ELSE IF Tier3 \/ Tier4 THEN Financial_Management
    ELSE IF Tier5 \/ Tier6 THEN Essential_Living
    ELSE IF Tier7 \/ Tier8 THEN Lifestyle_Spending
    ELSE IF Tier9Food THEN Lifestyle_Spending
    ELSE IF Tier9Market THEN Essential_Living
    ELSE IF short THEN Other
    ELSE IF Tier10 THEN Financial_Management
    ELSE Other

\* C2 as stated: the rule-based classifier returns the label of the
\* lowest-numbered matching tier of the 11-tier list, where a card payment
\* matching neither heuristic of tier 9 falls through to tiers 10 and 11.
C2_Original == ReturnedQuick => result = TierLabel(FALSE)

\* C2 (amended): the same, with tier 9 holding a third rule after the food
\* and market/store heuristics: a card payment whose description is shorter
\* than 10 characters is Other; only longer ones fall through to tier 10.
C2_TierOrder == ReturnedQuick => result = TierLabel(Tier9Short)

C2_Witness ==
    /\ ReturnedQuick
    /\ ~(Tier1 \/ Tier2 \/ Tier3 \/ Tier4 \/ Tier5 \/ Tier6 \/ Tier7 \/ Tier8)
    /\ ~Tier9Food /\ ~Tier9Market
    /\ Tier9Short /\ Tier10
    /\ result = Other

\* C6: a record with an income keyword in its description (or an income
\* type token) and a lifestyle keyword in its description or merchant
\* category is classified Income_Receipts by the rule-based classifier.
C6_IncomeOverLifestyle ==
    ( /\ ReturnedQuick
      /\ Tier1 \/ Tier2
      /\ AnyInEither(lifestyle_keywords, DescLower, CategoryLower) )
    => result = Income_Receipts

C6_Witness ==
    /\ ReturnedQuick
    /\ ~Tier1 /\ Tier2
    /\ AnyIn(lifestyle_keywords, DescLower)
    /\ result = Income_Receipts

\* C7 as stated: a successful call whose response is exactly a label returns
\* that label, and a successful call with any other response string returns
\* Other.
C7_Original ==
    (ReturnedRemote /\ response.kind = "content")
    => result = IF response.content \in Labels THEN response.content ELSE Other

\* s is the label l with nothing but whitespace before and after it
Padded(s, l) ==
    \E i \in 1..(Len(s) - Len(l) + 1) :
        /\ SubSeq(s, i, i + Len(l) - 1) = l
        /\ \A k \in 1..Len(s) :
             (k < i \/ k >= i + Len(l)) => s[k] \in Whitespace

\* C7 (amended): the response is compared after its leading and trailing
\* whitespace is removed: a successful call whose response is a label,
\* possibly surrounded by whitespace, returns that label, and a successful
\* call with any other response returns Other.
C7_ResultMapping ==
    (ReturnedRemote /\ response.kind = "content")
    => IF \E l \in Labels : Padded(response.content, l)
       THEN result \in Labels /\ Padded(response.content, result)
       ELSE result = Other

C7_Witness ==
    /\ ReturnedRemote
    /\ response = Answer(<<" ">> \o Essential_Living \o <<"\n">>)
    /\ result = Essential_Living

ValidationTag == "Warning: Invalid category"
FailureTag == "Error categorizing transaction"

\* C8: an unrecognized response gives Other with one validation diagnostic;
\* a raised call or a response without text content gives Other with one
\* failure diagnostic; the two kinds differ; a valid response gives none.
C8_FallbackDiagnostics ==
    ReturnedRemote =>
        /\ ValidationTag # FailureTag
        /\ response.kind \in { "raise", "null" } =>
              /\ result = Other
              /\ Len(printed) = 1 /\ printed[1].tag = FailureTag
        /\ (response.kind = "content" /\ strip(response.content) \notin Labels) =>
              /\ result = Other
              /\ Len(printed) = 1 /\ printed[1].tag = ValidationTag
        /\ (response.kind = "content" /\ strip(response.content) \in Labels) =>
              printed = << >>

C8_Witness ==
    /\ ReturnedRemote
    /\ response = Raises("APITimeoutError")
    /\ result = Other
    /\ printed = << [tag |-> FailureTag, arg |-> "APITimeoutError"] >>

\* the label of a call on which the service did r is a default, not an
\* answer of the model
Defaulted(r) == r.kind # "content" \/ ~(\E l \in Labels : Padded(r.content, l))

\* C16 as stated: the value a remote classification returns tells whether
\* the label was chosen by the model or defaulted -- no defaulted call
\* returns what a call answered by the model returns.
C16_Original ==
    ReturnedRemote =>
        \A r \in Responses :
            Defaulted(r) # Defaulted(response)
            => remote_categorize_transaction(description, merchant_category,
                                             transaction_type, r).ret # result

\* C16 (amended): a remote classification returns the bare label; a
\* defaulted call returns Other, the very value a call answered 'Other' by
\* the model returns, and the only trace of the default is the one
\* diagnostic the call prints (none is printed for a model-chosen label).
C16_ProvenanceOnlyPrinted ==
    ReturnedRemote =>
        /\ result \in Labels
        /\ Defaulted(response) =>
              /\ result = Other
              /\ Len(printed) = 1
              /\ printed[1].tag \in { ValidationTag, FailureTag }
              /\ remote_categorize_transaction(description, merchant_category,
                     transaction_type, Answer(Other)).ret = result
        /\ ~Defaulted(response) => printed = << >>

C16_Witness ==
    /\ ReturnedRemote
    /\ response = Answer(NotACategory)
    /\ result = Other
    /\ printed = << [tag |-> ValidationTag, arg |-> NotACategory] >>
    /\ Answer(Other) \in Responses

\* a card payment that no rule of tiers 1-8 and neither heuristic of tier 9
\* matches
UnmatchedCardPayment ==
    /\ ReturnedQuick
    /\ TypeLower = card_payment
    /\ ~(Tier1 \/ Tier2 \/ Tier3 \/ Tier4)
    /\ ~(Tier5 \/ Tier6 \/ Tier7 \/ Tier8)
    /\ ~(Tier9Food \/ Tier9Market)

\* C17 as stated: such a card payment whose description contains 'service'
\* or 'servicios' is Financial_Management, whatever the length of the
\* description.
C17_Original ==
    (UnmatchedCardPayment /\ Tier10) => result = Financial_Management

\* C17 (amended): such a card payment falls through to the 'service' /
\* 'servicios' rule only when its description has 10 characters or more;
\* with a shorter description it is Other, 'service' in it or not.
C17_CardPaymentFallThrough ==
    UnmatchedCardPayment =>
        result = IF Len(DescLower) < 10 THEN Other
                 ELSE IF Tier10 THEN Financial_Management
                 ELSE Other

C17_Witness ==
    /\ ReturnedQuick
    /\ description = service
    /\ transaction_type = card_payment
    /\ Len(DescLower) = 7
    /\ UnmatchedCardPayment /\ Tier10
    /\ result = Other

\* a missing field replaced by the empty string
Blank(x) == IF x \in { NaN, None } THEN << >> ELSE x

\* C10: a missing field behaves like an empty one -- replacing every missing
\* field by the empty string gives the same label, and a record whose three
\* fields are all empty or missing is Other.
C10_MissingIsEmpty ==
    ReturnedQuick =>
        /\ \A d \in { description, Blank(description) } :
           \A c \in { merchant_category, Blank(merchant_category) } :
           \A t \in { transaction_type, Blank(transaction_type) } :
               quick_categorize_transaction(d, c, t) = result
        /\ ( /\ Blank(description) = << >>
             /\ Blank(merchant_category) = << >>
             /\ Blank(transaction_type) = << >> ) => result = Other

C10_Witness ==
    /\ ReturnedQuick
    /\ description = NaN
    /\ merchant_category = None
    /\ transaction_type = card_payment
    /\ result = Other

-----------------------------------------------------------------------------
(* Claims about a batch run (SpecBatch, SpecRemoteFair) *)

\* the Super_Category column has been assigned
Labelled == pc \in { "to_csv", "report", "done" }

\* the distinct fingerprints of the batch
Fingerprints == { Args(df[i]) : i \in 1..Len(df) }

\* C3: after a batch run of either script, two records with identical
\* (description, merchant category, type) carry the identical label, also
\* when the remote service answers differently from call to call.
C3_FingerprintConsistency ==
    Labelled =>
        \A i, j \in 1..Len(df) :
            Args(df[i]) = Args(df[j])
            => df[i].Super_Category = df[j].Super_Category

C3_Witness ==
    /\ pc = "done" /\ script = "remote"
    /\ Len(df) = 3
    /\ Args(df[1]) = Args(df[3]) /\ df[1].Amount # df[3].Amount
    /\ Args(df[1]) # Args(df[2])
    /\ df[1].Super_Category = df[3].Super_Category
    /\ df[1].Super_Category # df[2].Super_Category
    /\ unique_key(df[1]) # unique_key(df[2])

\* C4: the remote batch calls categorize_transaction exactly once for every
\* distinct fingerprint of the batch: U calls for U fingerprints, never two
\* calls for the same fingerprint, none missing.
C4_DedupEfficiency ==
    script = "remote" =>
        /\ \A k, l \in 1..Len(calls) : calls[k] = calls[l] => k = l
        /\ Labelled =>
              /\ Len(calls) = Cardinality(Fingerprints)
              /\ \A f \in Fingerprints : \E k \in 1..Len(calls) : calls[k] = f

C4_Witness ==
    /\ pc = "done" /\ script = "remote"
    /\ Len(df) = 3
    /\ Cardinality(Fingerprints) = 2
    /\ Len(calls) = 2
    /\ Cardinality(DOMAIN unique_mapping) = 1

\* C5 as stated: the rule-based batch calls categorize_transaction once per
\* distinct fingerprint (U times), not once per record.
C5_Original ==
    (script = "quick" /\ Labelled) => Len(calls) = Cardinality(Fingerprints)

\* C5 (amended): the rule-based batch has no dedup layer: it calls
\* categorize_transaction once per record, N times, in row order, and every
\* row gets the label of the call made on its own fields.
C5_OneCallPerRecord ==
    (script = "quick" /\ Labelled) =>
        /\ Len(calls) = Len(df)
        /\ \A i \in 1..Len(df) :
              /\ calls[i] = Args(df[i])
              /\ df[i].Super_Category =
                    quick_categorize_transaction(calls[i][1], calls[i][2],
                                                 calls[i][3])

C5_Witness ==
    /\ pc = "done" /\ script = "quick"
    /\ Len(df) = 3
    /\ Cardinality(Fingerprints) = 1
    /\ Len(calls) = 3

\* C9: whatever the remote service does on each call, the batch run reaches
\* its end, no exception of a classification escaping, with every input
\* record carrying one label.
C9_BatchCompletes ==
    <>( /\ pc = "done"
        /\ Len(df) = Len(input)
        /\ \A i \in 1..Len(df) : df[i].Super_Category \in Labels )

C9_Witness ==
    /\ pc = "done" /\ script = "remote"
    /\ Len(df) = 3 /\ Len(input) = 3
    /\ Len(calls) = 3
    /\ \E k \in 1..Len(printed) : printed[k].tag = FailureTag
    /\ \E k \in 1..Len(printed) : printed[k].tag = ValidationTag
    /\ \A i \in 1..Len(df) : df[i].Super_Category \in Labels

\* the script has written the file
Saved == pc \in { "report", "done" }

\* the value a cell of the file stands for: the text, or missing
CellValue(cell) == IF cell \in NaValues THEN NaN ELSE cell

-----------------------------------------------------------------------------
(* Claims about the rule-based classifier on whole records (SpecRecord) *)

\* two texts that differ at most in the case of their letters
SameButCase(a, b) ==
    /\ Len(a) = Len(b)
    /\ \A i \in 1..Len(a) :
          \/ a[i] = b[i]
          \/ \E k \in DOMAIN UpperAlpha :
                { a[i], b[i] } = { UpperAlpha[k], LowerAlpha[k] }

\* k occurs somewhere in s, the case of the letters ignored
ContainsButCase(k, s) ==
    \E i \in 0..(Len(s) - Len(k)) : SameButCase(SubSeq(s, i + 1, i + Len(k)), k)

TypeIsIncomeToken ==
    \E i \in DOMAIN income_types : SameButCase(income_types[i], transaction_type)
DescriptionHasIncomeKeyword ==
    \E i \in DOMAIN income_keywords :
        ContainsButCase(income_keywords[i], description)

\* C11: case-insensitivity -- records that differ only in the letter case of
\* their fields get the same label; an income keyword anywhere inside the
\* description matches, whereas the type matches an income token only when
\* the whole type is the token: a type such as 'topup fee' does not.
C11_CaseInsensitive ==
    ReturnedQuick =>
        /\ \A d \in RecordDescriptions, c \in RecordCategories, t \in RecordTypes :
              ( /\ SameButCase(d, description)
                /\ SameButCase(c, merchant_category)
                /\ SameButCase(t, transaction_type) )
              => quick_categorize_transaction(d, c, t) = result
        /\ DescriptionHasIncomeKeyword => result = Income_Receipts
        /\ TypeIsIncomeToken => result = Income_Receipts
        /\ result = Income_Receipts
              => TypeIsIncomeToken \/ DescriptionHasIncomeKeyword

C11_Witness ==
    /\ ReturnedQuick
    /\ transaction_type = upper(Text_topup_fee)
    /\ description = lower(Text_netflix_subscription)
    /\ merchant_category = << >>
    /\ result = Lifestyle_Spending
    /\ quick_categorize_transaction(Text_netflix_subscription, << >>,
                                    Text_topup_fee) = Lifestyle_Spending

\* C13: the four scenarios -- ('SALARY PAYMENT FROM EMPLOYER', any category,
\* 'topup') is Income_Receipts by the type token; ('CARREFOUR MARKET',
\* 'Groceries', 'card payment') is Essential_Living; ('NETFLIX SUBSCRIPTION',
\* 'Entertainment', 'card payment') is Lifestyle_Spending; ('UNKNOWN VENDOR
\* XY', '', 'card payment') matches no tier and is Other.
C13_Scenarios ==
    ReturnedQuick =>
        /\ (description = Text_salary_payment /\ transaction_type = Cell_topup)
              => (Tier1 /\ result = Income_Receipts)
        /\ ( /\ description = Text_carrefour_market
             /\ merchant_category = Text_Groceries
             /\ transaction_type = card_payment ) => result = Essential_Living
        /\ ( /\ description = Text_netflix_subscription
             /\ merchant_category = Text_Entertainment
             /\ transaction_type = card_payment ) => result = Lifestyle_Spending
        /\ ( /\ description = Text_unknown_vendor
             /\ merchant_category = << >>
             /\ transaction_type = card_payment )
              => /\ result = Other
                 /\ ~(Tier1 \/ Tier2 \/ Tier3 \/ Tier4 \/ Tier5 \/ Tier6)
                 /\ ~(Tier7 \/ Tier8 \/ Tier9Food \/ Tier9Market \/ Tier10)

C13_Witness ==
    /\ ReturnedQuick
    /\ description = Text_unknown_vendor
    /\ merchant_category = << >>
    /\ transaction_type = card_payment
    /\ result = Other

\* k occurs in the description or in the merchant category
InFreeText(k) ==
    ContainsButCase(k, description) \/ ContainsButCase(k, merchant_category)

\* an essential-living rule matches: an essential keyword in the free text
\* or a grocery merchant in the description
EssentialRule ==
    \/ \E i \in DOMAIN essential_keywords : InFreeText(essential_keywords[i])
    \/ \E i \in DOMAIN grocery_stores :
          ContainsButCase(grocery_stores[i], description)

\* a lifestyle rule matches: a lifestyle keyword in the free text or a
\* restaurant name in the description
LifestyleRule ==
    \/ \E i \in DOMAIN lifestyle_keywords : InFreeText(lifestyle_keywords[i])
    \/ \E i \in DOMAIN restaurants : ContainsButCase(restaurants[i], description)

\* C21: essential over lifestyle -- a record that no rule of tiers 1-4
\* matches and that both an essential-living rule and a lifestyle rule match
\* is Essential_Living.
C21_EssentialOverLifestyle ==
    ( /\ ReturnedQuick
      /\ ~(Tier1 \/ Tier2 \/ Tier3 \/ Tier4)
      /\ EssentialRule
      /\ LifestyleRule )
    => result = Essential_Living

C21_Witness ==
    /\ ReturnedQuick
    /\ description = Text_okay_kebab
    /\ merchant_category = << >>
    /\ ~(Tier1 \/ Tier2 \/ Tier3 \/ Tier4)
    /\ ~(\E i \in DOMAIN essential_keywords : InFreeText(essential_keywords[i]))
    /\ ~(\E i \in DOMAIN lifestyle_keywords : InFreeText(lifestyle_keywords[i]))
    /\ EssentialRule /\ LifestyleRule
    /\ result = Essential_Living

\* the three income type tokens
TypeTokens ==
    { <<"t","o","p","u","p">>, <<"r","e","w","a","r","d">>,
      <<"i","n","t","e","r","e","s","t">> }

\* C20: tier 1 dominance -- a record whose type is 'topup', 'reward' or
\* 'interest', in whatever letter case, is Income_Receipts for every
\* description and merchant category, those matching financial, essential
\* or lifestyle keywords included.
C20_Tier1Dominance ==
    ( /\ ReturnedQuick
      /\ \E token \in TypeTokens : SameButCase(token, transaction_type) )
    => result = Income_Receipts

C20_Witness ==
    /\ ReturnedQuick
    /\ transaction_type = <<"I","N","T","E","R","E","S","T">>
    /\ description = Text_transfer_to
    /\ merchant_category = Text_Entertainment
    /\ Tier4 /\ Tier7 /\ ~Tier2
    /\ result = Income_Receipts

-----------------------------------------------------------------------------
(* Claims about the distribution summary of a batch run (SpecBatch) *)

\* the labels the records of the batch carry
LabelsInUse == { df[i].Super_Category : i \in 1..Len(df) }

\* C14 as stated: the distribution summary has an entry with count and
\* percentage for every one of the five labels, also for a label that no
\* record of the batch received.
C14_Original ==
    pc = "done" =>
        \A l \in Labels :
            l \in DOMAIN summary /\ DOMAIN summary[l] = { "count", "percent" }

\* C14 (amended): the distribution summary has an entry for exactly the
\* labels that at least one record of the batch received, each with its
\* count (at least 1); the rule-based script adds the percentage, the remote
\* script prints the counts alone.
C14_SummaryOfLabelsInUse ==
    pc = "done" =>
        /\ DOMAIN summary = LabelsInUse
        /\ \A l \in DOMAIN summary :
              /\ summary[l].count =
                    Cardinality({ i \in 1..Len(df) : df[i].Super_Category = l })
              /\ summary[l].count >= 1
              /\ DOMAIN summary[l] =
                    IF script = "quick" THEN { "count", "percent" }
                    ELSE { "count" }

C14_Witness ==
    /\ pc = "done" /\ script = "quick"
    /\ Len(df) = 3
    /\ DOMAIN summary = { Income_Receipts, Other }
    /\ summary[Income_Receipts].count = 2
    /\ Lifestyle_Spending \notin DOMAIN summary

-----------------------------------------------------------------------------
(* Claims about the distribution report (SpecReport) *)

\* the number a text of decimal digits writes, the point skipped
RECURSIVE DigitsValue(_)
DigitsValue(s) ==
    IF s = << >> THEN 0
    ELSE IF s[Len(s)] = "." THEN DigitsValue(SubSeq(s, 1, Len(s) - 1))
    ELSE 10 * DigitsValue(SubSeq(s, 1, Len(s) - 1))
         + (CHOOSE v \in 0..9 : DigitChars[v + 1] = s[Len(s)])

\* a text with one decimal: digits, a point, one digit
OneDecimal(s) ==
    /\ Len(s) >= 3
    /\ s[Len(s) - 1] = "."
    /\ \A i \in 1..Len(s) : i # Len(s) - 1 => \E v \in 1..10 : DigitChars[v] = s[i]

RECURSIVE SumOfCounts(_)
SumOfCounts(labels) ==
    IF labels = {} THEN 0
    ELSE LET l == CHOOSE l \in labels : TRUE
         IN  summary[l].count + SumOfCounts(labels \ { l })

\* C15: distribution correctness -- the reported counts sum to the number N
\* of records, and every reported percentage is count/N*100 written with
\* one decimal, no further than half a tenth from the exact quotient;
\* counts 3 and 7 are reported as 30.0 and 70.0.
C15_Distribution ==
    pc = "done" =>
        /\ SumOfCounts(DOMAIN summary) = Len(df)
        /\ script = "quick" =>
              \A l \in DOMAIN summary :
                  LET tenths == DigitsValue(summary[l].percent)
                      exact == 1000 * summary[l].count
                  IN  /\ OneDecimal(summary[l].percent)
                      /\ 2 * (tenths * Len(df) - exact) <= Len(df)
                      /\ 2 * (exact - tenths * Len(df)) <= Len(df)
        /\ ( /\ script = "quick"
             /\ DOMAIN summary = { Income_Receipts, Other }
             /\ summary[Income_Receipts].count = 3
             /\ summary[Other].count = 7 )
              => /\ summary[Income_Receipts].percent = <<"3","0",".","0">>
                 /\ summary[Other].percent = <<"7","0",".","0">>

C15_Witness ==
    /\ pc = "done" /\ script = "quick"
    /\ Len(df) = 10
    /\ DOMAIN summary = { Income_Receipts, Other }
    /\ summary[Income_Receipts] = [count |-> 3, percent |-> <<"3","0",".","0">>]
    /\ summary[Other] = [count |-> 7, percent |-> <<"7","0",".","0">>]

-----------------------------------------------------------------------------
(* Claims about the fingerprint -> label map (SpecBatch) *)

\* C18: every record's final label is the one the classifier returned for
\* that record's own (description, merchant category, type), in every
\* batch, fields holding the '|' separator included: two records with
\* different triples never share a key of unique_mapping.
C18_OwnFingerprintLabel ==
    (script = "remote" /\ Labelled) =>
        /\ \A i, j \in 1..Len(df) :
              Args(df[i]) # Args(df[j]) => unique_key(df[i]) # unique_key(df[j])
        /\ \A i \in 1..Len(df) : \A k \in 1..Len(returned) :
              calls[k] = Args(df[i]) => df[i].Super_Category = returned[k]

\* the second conjunct alone: a record carries the label returned for
\* another triple
C18_LabelOfAnotherTriple ==
    /\ script = "remote" /\ pc = "done"
    /\ \E i \in 1..Len(df) : \E k \in 1..Len(returned) :
          calls[k] = Args(df[i]) /\ df[i].Super_Category # returned[k]

\* C19: order independence -- with every distinct fingerprint classified
\* once, a write into unique_mapping for one fingerprint never changes the
\* label stored for another: no step of the loop alters an entry the map
\* already holds, so the final labels do not depend on the order of the
\* writes.
C19_OrderIndependence ==
    [][ script = "remote" =>
          \A key \in DOMAIN unique_mapping :
              key \in DOMAIN unique_mapping'
              => unique_mapping'[key] = unique_mapping[key] ]_vars

-----------------------------------------------------------------------------
(* Claims about the keyword lists (SpecKeyword) *)

\* a card payment with an empty merchant category has been classified
KeywordRecord ==
    /\ ReturnedQuick
    /\ merchant_category = << >>
    /\ transaction_type = card_payment

\* C23: every keyword is effective for its own tier -- a card payment with
\* an empty merchant category whose description is exactly a keyword of a
\* list gets the category of that list: Income_Receipts for an income
\* keyword, Financial_Management for a financial keyword, Essential_Living
\* for an essential keyword or a grocery store, Lifestyle_Spending for a
\* lifestyle keyword or a restaurant name.
C23_EveryKeywordEffective ==
    KeywordRecord =>
        /\ InList(description, income_keywords) => result = Income_Receipts
        /\ InList(description, financial_keywords)
              => result = Financial_Management
        /\ InList(description, essential_keywords) => result = Essential_Living
        /\ InList(description, grocery_stores) => result = Essential_Living
        /\ InList(description, lifestyle_keywords) => result = Lifestyle_Spending
        /\ InList(description, restaurants) => result = Lifestyle_Spending

====
